---- MODULE Spec2Model ----
(***************************************************************************)
(* A model of youtube_downloader.py: the YouTubeDownloader facade over the *)
(* yt-dlp library (download_video, download_audio, download_playlist,      *)
(* get_video_info, get_playlist_info), the archive builder create_zip, and *)
(* the download section of the Streamlit script main().                    *)
(*                                                                         *)
(* Conventions.  A Python string the code slices or measures is a sequence *)
(* of text fragments (single characters where the code looks inside it);   *)
(* concatenation is \o.  An opaque string (a title, an exception's text)   *)
(* is a TLA+ string.  An optional value is None (<<>>) or Some(v).  The    *)
(* yt-dlp library and the filesystem are the environment: each call draws  *)
(* the library's answer from a bounded set of the answers it can give.     *)
(***************************************************************************)
EXTENDS Integers, Sequences, FiniteSets, TLC

VARIABLES
    op,        \* the facade operation called ("none": no call)
    args,      \* its arguments
    answer,    \* what the library will answer to extract_info in this call
    phase,     \* "call" until the operation has run, then "return"
    lib,       \* Some(what the library answered to extract_info), None if never called
    opts,      \* the ydl_opts handed to the library (None when never built)
    ret,       \* what the operation returned (None when it did not return)
    escaped,   \* Some(text) when an exception left the operation, else None
    fs,        \* the filesystem under the download directory
    pc,        \* main(): position in the script run
    ui,        \* main(): the widgets' values of this run
    calls,     \* main(): the facade operations this run has called, in order
    result,    \* main(): the tuple the download operation returned
    offered    \* main(): the file offered through st.download_button

vars == <<op, args, answer, phase, lib, opts, ret, escaped, fs, pc, ui, calls, result, offered>>

callVars == <<op, args, answer>>
facadeVars == <<op, args, answer, phase, lib, opts, ret, escaped>>
mainVars == <<pc, ui, calls, result, offered>>

----------------------------------------------------------------------------
(* Python values *)

None == <<>>
Some(v) == <<v>>
IsNone(o) == o = <<>>
Get(o) == o[1]

\* The outcome of evaluating a block: a value, or a raised exception.
Value(v) == [raised |-> FALSE, exc |-> "", val |-> Some(v)]
Raise(text) == [raised |-> TRUE, exc |-> text, val |-> None]

Digits == <<"0", "1", "2", "3", "4", "5", "6", "7", "8", "9">>
DigitSet == {Digits[i] : i \in 1..10}

\* s[:-1]
DropLast(s) == IF Len(s) = 0 THEN s ELSE SubSeq(s, 1, Len(s) - 1)

\* s[:n]
Prefix(s, n) == IF Len(s) <= n THEN s ELSE SubSeq(s, 1, n)

----------------------------------------------------------------------------
(* Bounds *)

\* longest run of digits in a quality selector "<digits>p"
MaxQualityDigits == 3
\* most entries of a playlist handed to download_playlist
MaxDownloadEntries == 3

----------------------------------------------------------------------------
(* download_video, download_audio, download_playlist *)

BestStr == <<"b", "e", "s", "t">>

\* A quality argument: a string (its characters) or a value that is no string.
StrArg(s) == [type |-> "str", s |-> s]
NonStrArg(type) == [type |-> type, s |-> <<>>]
IsStr(q) == q.type = "str"

RECURSIVE SeqsUpTo(_, _)
SeqsUpTo(S, n) ==
    IF n = 0 THEN {<<>>}
    ELSE LET shorter == SeqsUpTo(S, n - 1)
         IN shorter \cup {Append(s, c) : s \in {t \in shorter : Len(t) = n - 1}, c \in S}

QualityDigitAlphabet == {"0", "1", "2", "4", "7", "8"}
DigitStrings == SeqsUpTo(QualityDigitAlphabet, MaxQualityDigits) \ {<<>>}

Qualities ==
    {StrArg(BestStr), StrArg(<<>>), StrArg(<<"p">>), StrArg(<<"h", "d">>)}
    \cup {StrArg(Append(d, "p")) : d \in DigitStrings}
    \cup {NonStrArg("int"), NonStrArg("NoneType")}

AudioFormats == {"mp3", "m4a", "wav", "opus"}
Urls == {"", "https://youtu.be/x"}

\* FormatExpr with the slice forgotten: the unit letter stays in the bound
MutFormatExpr(quality) ==
    IF quality = BestStr THEN <<"bestvideo+bestaudio/best">>
    ELSE <<"bestvideo[height<=">> \o quality \o <<"]+bestaudio/best">>

\* lines 29 and 68: the 'format' option.  quality[:-1] raises TypeError on a
\* value that cannot be sliced.
FormatExpr(quality) ==
    IF quality = BestStr THEN <<"bestvideo+bestaudio/best">>
    ELSE <<"bestvideo[height<=">> \o DropLast(quality) \o <<"]+bestaudio/best">>

FormatOption(q) ==
    IF IsStr(q) THEN Value(FormatExpr(q.s))
    ELSE Raise("'" \o q.type \o "' object is not subscriptable")

\* What extract_info(url, download=True) can answer: an exception (whose text
\* may be empty, as for a bare AssertionError), None (ignoreerrors), or an info
\* dict with or without a title.
ItemLibAnswers ==
    {[kind |-> "raise", text |-> t, hasTitle |-> FALSE, title |-> "", filename |-> ""]
        : t \in {"", "ERROR: Video unavailable"}}
    \cup {[kind |-> "none", text |-> "", hasTitle |-> FALSE, title |-> "", filename |-> ""]}
    \cup {[kind |-> "info", text |-> "", hasTitle |-> h, title |-> "T", filename |-> f]
        : h \in BOOLEAN, f \in {"downloads/T.mp4", "downloads/T.webm"}}

\* info['title']
Subscript_title(l) ==
    IF l.kind = "none" THEN Raise("'NoneType' object is not subscriptable")
    ELSE IF ~l.hasTitle THEN Raise("'title'")
    ELSE Value(l.title)

\* lines 36-39: the body of download_video's try block
DownloadVideoBody(l) ==
    IF l.kind = "raise" THEN Raise(l.text)
    ELSE IF l.kind = "none" THEN Raise("'NoneType' object is not iterable")
    ELSE LET t == Subscript_title(l)
         IN IF t.raised THEN t
            ELSE Value([success |-> TRUE, message |-> Get(t.val), path |-> Some(l.filename)])

\* lines 57-60: the body of download_audio's try block
DownloadAudioBody(l, format) ==
    IF l.kind = "raise" THEN Raise(l.text)
    ELSE LET t == Subscript_title(l)
         IN IF t.raised THEN t
            ELSE Value([success |-> TRUE, message |-> Get(t.val),
                        path |-> Some("downloads/" \o Get(t.val) \o "." \o format)])

\* lines 40-41 and 61-62: except Exception as e: return False, str(e), None
ItemExcept(body) ==
    IF body.raised
    THEN Value([success |-> FALSE, message |-> body.exc, path |-> None])
    ELSE body

\* lines 26-41
download_video(url, quality, l) ==
    LET f == FormatOption(quality)
    IN IF f.raised THEN [opts |-> None, out |-> f]
       ELSE [opts |-> Some([format |-> Get(f.val), merge |-> "mp4", codec |-> "", ignoreerrors |-> FALSE]),
             out |-> ItemExcept(DownloadVideoBody(l))]

\* lines 43-62
download_audio(url, format, l) ==
    [opts |-> Some([format |-> <<"bestaudio/best">>, merge |-> "", codec |-> format, ignoreerrors |-> FALSE]),
     out |-> ItemExcept(DownloadAudioBody(l, format))]

RECURSIVE CountOk(_)
CountOk(entries) ==
    IF entries = <<>> THEN 0
    ELSE (IF entries[1] = "ok" THEN 1 ELSE 0) + CountOk(Tail(entries))

\* What extract_info answers for a playlist.  With ignoreerrors the library
\* keeps going past an item that fails and reports it as a None entry, and
\* answers None when the playlist itself cannot be extracted.
PlaylistLibAnswers ==
    {[kind |-> "raise", text |-> t, hasTitle |-> FALSE, title |-> "", hasEntries |-> FALSE, entries |-> <<>>]
        : t \in {"", "ERROR: The playlist does not exist"}}
    \cup {[kind |-> "none", text |-> "", hasTitle |-> FALSE, title |-> "", hasEntries |-> FALSE, entries |-> <<>>]}
    \cup {[kind |-> "info", text |-> "", hasTitle |-> h, title |-> "PL", hasEntries |-> TRUE, entries |-> e]
        : h \in BOOLEAN, e \in SeqsUpTo({"ok", "failed"}, MaxDownloadEntries)}
    \cup {[kind |-> "info", text |-> "", hasTitle |-> h, title |-> "PL", hasEntries |-> FALSE, entries |-> <<>>]
        : h \in BOOLEAN}

\* VideoCount counting only the entries that were downloaded
MutVideoCount(l) == CountOk(l.entries)

\* line 89: len(info.get('entries', []))
VideoCount(l) == IF l.hasEntries THEN Len(l.entries) ELSE 0

\* line 88: info.get('title', 'playlist')
PlaylistTitle(l) == IF l.hasTitle THEN l.title ELSE "playlist"

\* lines 86-91: the body of download_playlist's try block
DownloadPlaylistBody(l) ==
    IF l.kind = "raise" THEN Raise(l.text)
    ELSE IF l.kind = "none" THEN Raise("'NoneType' object has no attribute 'get'")
    ELSE Value([success |-> TRUE, message |-> PlaylistTitle(l), count |-> VideoCount(l),
                path |-> Some("downloads/" \o PlaylistTitle(l))])

\* lines 92-93: except Exception as e: return False, str(e), 0, None
PlaylistExcept(body) ==
    IF body.raised
    THEN Value([success |-> FALSE, message |-> body.exc, count |-> 0, path |-> None])
    ELSE body

\* lines 64-93
download_playlist(url, download_type, quality, audio_format, l) ==
    IF download_type = "video"
    THEN LET f == FormatOption(quality)
         IN IF f.raised THEN [opts |-> None, out |-> f]
            ELSE [opts |-> Some([format |-> Get(f.val), merge |-> "mp4", codec |-> "", ignoreerrors |-> TRUE]),
                  out |-> PlaylistExcept(DownloadPlaylistBody(l))]
    ELSE [opts |-> Some([format |-> <<"bestaudio/best">>, merge |-> "", codec |-> audio_format, ignoreerrors |-> TRUE]),
          out |-> PlaylistExcept(DownloadPlaylistBody(l))]

\* The caller's view of a call: the value returned, or the exception that left it.
Returned(r) == IF r.out.raised THEN None ELSE r.out.val
Escaped(r) == IF r.out.raised THEN Some(r.out.exc) ELSE None
\* the library's answer, when the call got as far as the library
LibSeen(r, l) == IF IsNone(r.opts) THEN None ELSE Some(l)

DownloadArgs(url, dtype, quality, format) ==
    [url |-> url, download_type |-> dtype, quality |-> quality, format |-> format]

\* download_video(url, quality)
VideoCalls == {DownloadArgs(u, "video", q, "") : u \in Urls, q \in Qualities}
\* download_audio(url, format)
AudioCalls == {DownloadArgs(u, "audio", StrArg(BestStr), f) : u \in Urls, f \in AudioFormats}
\* download_playlist(url, "video", quality) and download_playlist(url, "audio",
\* audio_format=format), the other parameter at its default
PlaylistCalls ==
    {DownloadArgs(u, "video", q, "mp3") : u \in Urls, q \in Qualities}
    \cup {DownloadArgs(u, "audio", q, f)
            : u \in Urls, q \in {StrArg(BestStr), NonStrArg("NoneType")}, f \in AudioFormats}

DownloadVideo ==
    /\ phase = "call" /\ op = "download_video"
    /\ LET r == download_video(args.url, args.quality, answer)
       IN /\ lib' = LibSeen(r, answer)
          /\ opts' = r.opts
          /\ ret' = Returned(r)
          /\ escaped' = Escaped(r)
    /\ phase' = "return"
    /\ UNCHANGED <<callVars, fs, mainVars>>

DownloadAudio ==
    /\ phase = "call" /\ op = "download_audio"
    /\ LET r == download_audio(args.url, args.format, answer)
       IN /\ lib' = LibSeen(r, answer)
          /\ opts' = r.opts
          /\ ret' = Returned(r)
          /\ escaped' = Escaped(r)
    /\ phase' = "return"
    /\ UNCHANGED <<callVars, fs, mainVars>>

DownloadPlaylist ==
    /\ phase = "call" /\ op = "download_playlist"
    /\ LET r == download_playlist(args.url, args.download_type, args.quality, args.format, answer)
       IN /\ lib' = LibSeen(r, answer)
          /\ opts' = r.opts
          /\ ret' = Returned(r)
          /\ escaped' = Escaped(r)
    /\ phase' = "return"
    /\ UNCHANGED <<callVars, fs, mainVars>>

----------------------------------------------------------------------------
(* get_video_info *)

\* longest description the library hands back
MaxDescLen == 302
\* durations 0..MaxShortDuration are all tried, with a few beyond an hour
MaxShortDuration == 130
\* line 111: the description's cut
DescLimit == 300

RECURSIVE Dec(_)
\* the decimal digits of n >= 0
Dec(n) == IF n < 10 THEN <<Digits[n + 1]>> ELSE Dec(n \div 10) \o <<Digits[(n % 10) + 1]>>

\* f"{n}"
FormatInt(n) == IF n < 0 THEN <<"-">> \o Dec(-n) ELSE Dec(n)

\* Format02d without the zero fill
MutFormat02d(n) == FormatInt(n)

\* f"{n:02d}": at least two characters, zero-filled after the sign
Format02d(n) ==
    IF n < 0 THEN <<"-">> \o Dec(-n)
    ELSE IF n < 10 THEN <<"0">> \o Dec(n)
    ELSE Dec(n)

DescAlphabet == <<"a", ".", "b", "c", " ">>
\* a description of n characters; v shifts which character stands where
DescText(n, v) == [i \in 1..n |-> DescAlphabet[((i + v) % 5) + 1]]

Durations == (0..MaxShortDuration) \cup {3599, 3600, 3725, 7325}

PyDuration(tag, v) == [tag |-> tag, v |-> v]
PyDescription(tag, s) == [tag |-> tag, s |-> s]

VideoAnswer(kind, text, dur, desc) ==
    [kind |-> kind, text |-> text, title |-> Some("T"), duration |-> dur, description |-> desc]

\* What extract_info(url, download=False) can answer for an item: an exception,
\* None, or an info dict whose 'duration' is absent, None, an int or a float and
\* whose 'description' is absent, None or a string.
VideoLibAnswers ==
    {VideoAnswer("raise", t, PyDuration("absent", 0), PyDescription("absent", <<>>))
        : t \in {"", "ERROR: Video unavailable"}}
    \cup {VideoAnswer("none", "", PyDuration("absent", 0), PyDescription("absent", <<>>))}
    \cup {VideoAnswer("info", "", PyDuration("int", d), PyDescription("str", DescText(7, 0)))
        : d \in Durations \cup {-5}}
    \cup {VideoAnswer("info", "", PyDuration(t, 0), PyDescription(dt, <<>>))
        : t \in {"absent", "none", "float"}, dt \in {"absent", "none", "str"}}
    \cup {VideoAnswer("info", "", PyDuration(t, 125), PyDescription("str", DescText(n, v)))
        : t \in {"int", "float"}, n \in 0..MaxDescLen, v \in 0..1}

\* lines 102-103 and 107: info.get('duration', 0) // 60, % 60 and the f-string
DurationText(dur) ==
    IF dur.tag = "none" THEN Raise("unsupported operand type(s) for //: 'NoneType' and 'int'")
    ELSE IF dur.tag = "float" THEN Raise("Unknown format code 'd' for object of type 'float'")
    ELSE LET total == IF dur.tag = "absent" THEN 0 ELSE dur.v
             duration_min == total \div 60
             duration_sec == total % 60
         IN Value(FormatInt(duration_min) \o <<":">> \o Format02d(duration_sec))

\* DescriptionText cutting at 300 characters already (>= for >)
MutDescriptionText(desc) ==
    IF desc.tag = "none" THEN Raise("object of type 'NoneType' has no len()")
    ELSE LET d == IF desc.tag = "absent" THEN <<>> ELSE desc.s
         IN Value(IF Len(d) >= DescLimit THEN Prefix(d, DescLimit) \o <<".", ".", ".">> ELSE d)

\* lines 111-112: description[:300] + '...' if len(description) > 300 else description
DescriptionText(desc) ==
    IF desc.tag = "none" THEN Raise("object of type 'NoneType' has no len()")
    ELSE LET d == IF desc.tag = "absent" THEN <<>> ELSE desc.s
         IN Value(IF Len(d) > DescLimit THEN Prefix(d, DescLimit) \o <<".", ".", ".">> ELSE d)

\* lines 100-113: the body of get_video_info's try block ('uploader', 'views'
\* and 'thumbnail' are handed through like 'title' and are left out)
VideoInfoBody(l) ==
    IF l.kind = "raise" THEN Raise(l.text)
    ELSE IF l.kind = "none" THEN Raise("'NoneType' object has no attribute 'get'")
    ELSE LET dur == DurationText(l.duration)
             desc == DescriptionText(l.description)
         IN IF dur.raised THEN dur
            ELSE IF desc.raised THEN desc
            ELSE Value(Some([title |-> l.title, duration |-> Get(dur.val),
                             description |-> Get(desc.val)]))

\* InfoExcept without the except clause
MutInfoExcept(body) == body

\* lines 114-115 and 137-138: except Exception as e: return None
InfoExcept(body) == IF body.raised THEN Value(None) ELSE body

\* lines 95-115
get_video_info(url, l) == [opts |-> Some("quiet"), out |-> InfoExcept(VideoInfoBody(l))]

GetVideoInfo ==
    /\ phase = "call" /\ op = "get_video_info"
    /\ LET r == get_video_info(args.url, answer)
       IN /\ lib' = LibSeen(r, answer)
          /\ opts' = r.opts
          /\ ret' = Returned(r)
          /\ escaped' = Escaped(r)
    /\ phase' = "return"
    /\ UNCHANGED <<callVars, fs, mainVars>>

----------------------------------------------------------------------------
(* get_playlist_info *)

\* most entries of a playlist handed to get_playlist_info
MaxPreviewEntries == 12
\* line 134: info['entries'][:10]
PreviewCap == 10

\* The i-th entry of the flat listing: a dict with its own title and a duration
\* (None for every third one), or None where the listing is malformed.
FlatEntry(i, isDict) ==
    [isDict |-> isDict, title |-> (i * 7) % 17,
     duration |-> IF i % 3 = 0 THEN None ELSE Some(61 * i)]

\* a listing of n entries, the one at position bad (if any) being None
FlatEntries(n, bad) == [i \in 1..n |-> FlatEntry(i, i # bad)]

PlaylistInfoAnswer(kind, text, hasEntries, entries) ==
    [kind |-> kind, text |-> text, title |-> Some("PL"), hasEntries |-> hasEntries,
     entries |-> entries]

\* What extract_info(url, download=False) with extract_flat can answer: an
\* exception, None, an info dict without 'entries' (the URL is a single item),
\* or one with its entries.
PlaylistInfoLibAnswers ==
    {PlaylistInfoAnswer("raise", t, FALSE, <<>>) : t \in {"", "ERROR: The playlist does not exist"}}
    \cup {PlaylistInfoAnswer("none", "", FALSE, <<>>), PlaylistInfoAnswer("info", "", FALSE, <<>>)}
    \cup {PlaylistInfoAnswer("info", "", TRUE, FlatEntries(n, bad))
        : n \in 0..MaxPreviewEntries, bad \in 0..MaxPreviewEntries}

\* line 133: {'title': entry.get('title'), 'duration': entry.get('duration')}
VideoItem(entry) == [title |-> entry.title, duration |-> entry.duration]

\* PreviewVideos without the cut to the first entries
MutPreviewVideos(entries) ==
    [i \in 1..Len(entries) |-> VideoItem(entries[i])]

\* lines 133-134: the list comprehension over info['entries'][:10]
PreviewVideos(entries) ==
    LET first == Prefix(entries, PreviewCap)
    IN [i \in 1..Len(first) |-> VideoItem(first[i])]

\* lines 126-136: the body of get_playlist_info's try block
PlaylistInfoBody(l) ==
    IF l.kind = "raise" THEN Raise(l.text)
    ELSE IF l.kind = "none" THEN Raise("argument of type 'NoneType' is not iterable")
    ELSE IF ~l.hasEntries THEN Value(None)
    ELSE IF \E i \in 1..Len(Prefix(l.entries, PreviewCap)) : ~l.entries[i].isDict
         THEN Raise("'NoneType' object has no attribute 'get'")
    ELSE Value(Some([title |-> l.title, video_count |-> Len(l.entries),
                     videos |-> PreviewVideos(l.entries)]))

\* lines 117-138
get_playlist_info(url, l) ==
    [opts |-> Some("quiet,extract_flat"), out |-> InfoExcept(PlaylistInfoBody(l))]

GetPlaylistInfo ==
    /\ phase = "call" /\ op = "get_playlist_info"
    /\ LET r == get_playlist_info(args.url, answer)
       IN /\ lib' = LibSeen(r, answer)
          /\ opts' = r.opts
          /\ ret' = Returned(r)
          /\ escaped' = Escaped(r)
    /\ phase' = "return"
    /\ UNCHANGED <<callVars, fs, mainVars>>

----------------------------------------------------------------------------
(* create_zip and the filesystem *)

\* a file's content is one of 1..MaxData
MaxData == 2

DownloadPath == <<"downloads">>
SourceFolder == <<"downloads", "PL">>

\* The places a node may be, relative to the source folder.
Universe ==
    {<<"a">>, <<"sub">>, <<"sub", "c">>, <<"sub", "d">>, <<"sub", "d", "e">>}

\* A node: a regular file, a directory, a symbolic link to a regular file (data
\* is the target's content), to a directory or to nothing, or a FIFO.
NodeKinds == {"file", "dir", "symlink_file", "symlink_dir", "symlink_broken", "fifo"}
Absent == [kind |-> "absent", data |-> 0]
NodeValues ==
    {Absent}
    \cup {[kind |-> k, data |-> d] : k \in {"file", "symlink_file"}, d \in 1..MaxData}
    \cup {[kind |-> k, data |-> 0] : k \in NodeKinds \ {"file", "symlink_file"}}

\* a node exists only inside a directory that exists
ValidTree(t) ==
    \A q \in Universe :
        (Len(q) > 1 /\ t[q].kind # "absent") => t[DropLast(q)].kind = "dir"

Trees == {t \in [Universe -> NodeValues] : ValidTree(t)}
EmptyTree == [q \in Universe |-> Absent]

\* The filesystem: the source folder itself (a readable directory, a directory
\* the process may not list, or nothing), the nodes under it, whether the
\* download directory may be written, and the archive create_zip left there.
FsStates ==
    {[root |-> "dir", nodes |-> t, writable |-> w, archive |-> None]
        : t \in Trees, w \in BOOLEAN}
    \cup {[root |-> r, nodes |-> EmptyTree, writable |-> w, archive |-> None]
        : r \in {"absent", "unreadable"}, w \in BOOLEAN}

NoFs == [root |-> "absent", nodes |-> EmptyTree, writable |-> TRUE, archive |-> None]

\* Path.is_file(): follows symbolic links
IsFile(node) == node.kind \in {"file", "symlink_file"}

\* pathlib's glob lists a directory only if it is one and may be read; it
\* yields nothing otherwise, without an error
DirListable(f) == f.root = "dir"

RECURSIVE Walk(_, _, _)
\* what rglob('*') yields below dir: every node there, and below every real
\* directory among them (a link to a directory is not followed); depth bounds
\* the recursion at the universe's depth
Walk(t, dir, depth) ==
    LET children == {q \in Universe : Len(q) = Len(dir) + 1 /\ DropLast(q) = dir
                                      /\ t[q].kind # "absent"}
    IN IF depth = 0 THEN {}
       ELSE children \cup UNION {Walk(t, c, depth - 1) : c \in {q \in children : t[q].kind = "dir"}}

\* line 145: folder.rglob('*')
RGlob(f) == IF DirListable(f) THEN Walk(f.nodes, <<>>, 3) ELSE {}

\* file.relative_to(base), base being a prefix of path
RelativeTo(path, base) == SubSeq(path, Len(base) + 1, Len(path))

\* lines 145-147: the entries written, each a stored name and a content
ZipEntries(f, folder) ==
    {[name |-> RelativeTo(folder \o q, DropLast(folder)), data |-> f.nodes[q].data]
        : q \in {x \in RGlob(f) : IsFile(f.nodes[x])}}

\* line 142: self.download_path / f"{zip_name}.zip"; a '/' in zip_name makes
\* further path components
ZipPath(zip_name) ==
    DownloadPath \o DropLast(zip_name) \o <<zip_name[Len(zip_name)] \o ".zip">>

\* whether f holds the directory the archive is to be created in
IsDirectory(f, path) ==
    \/ path = DownloadPath
    \/ path = SourceFolder /\ f.root \in {"dir", "unreadable"}

\* line 143: zipfile.ZipFile(zip_path, 'w') opens the file for writing
OpenForWrite(f, zip_name) ==
    IF ~IsDirectory(f, DownloadPath \o DropLast(zip_name))
    THEN Raise("[Errno 2] No such file or directory")
    ELSE IF ~f.writable THEN Raise("[Errno 13] Permission denied")
    ELSE Value(ZipPath(zip_name))

\* lines 140-148: no try block, an OSError leaves the method
create_zip(f, folder_path, zip_name) ==
    LET opened == OpenForWrite(f, zip_name)
    IN IF opened.raised THEN [fs |-> f, out |-> opened]
       ELSE [fs |-> [f EXCEPT !.archive = Some([path |-> ZipPath(zip_name),
                                               entries |-> ZipEntries(f, folder_path)])],
             out |-> Value(ZipPath(zip_name))]

\* a zip_name, split at its '/' characters: "PL" and "AC/DC"
ZipNames == {<<"PL">>, <<"AC", "DC">>}

CreateZip ==
    /\ phase = "call" /\ op = "create_zip"
    /\ LET r == create_zip(fs, args.folder_path, args.zip_name)
       IN /\ ret' = Returned(r)
          /\ escaped' = Escaped(r)
          /\ fs' = r.fs
    /\ phase' = "return"
    /\ UNCHANGED <<callVars, lib, opts, mainVars>>

----------------------------------------------------------------------------
(* main(): one run of the script per submission of the form *)

ContentTypes == {"Single Video", "Playlist"}
DownloadTypes == {"Video", "Audio Only"}
\* line 196: the quality selectbox
UiQualities ==
    {BestStr, <<"1", "0", "8", "0", "p">>, <<"7", "2", "0", "p">>,
     <<"4", "8", "0", "p">>, <<"3", "6", "0", "p">>}
Buttons == {"none", "preview", "download"}

\* lines 181-247: the widgets' values; only the selectbox of the chosen
\* download type exists
UiStates ==
    {[content_type |-> c, download_type |-> "Video", quality |-> q, audio_format |-> "",
      url |-> u, button |-> b]
        : c \in ContentTypes, q \in UiQualities, u \in Urls, b \in Buttons}
    \cup {[content_type |-> c, download_type |-> "Audio Only", quality |-> <<>>,
           audio_format |-> a, url |-> u, button |-> b]
        : c \in ContentTypes, a \in AudioFormats, u \in Urls, b \in Buttons}

NoUi ==
    [content_type |-> "Single Video", download_type |-> "Video", quality |-> BestStr,
     audio_format |-> "", url |-> "", button |-> "none"]

NoResult == [success |-> FALSE, message |-> "", count |-> 0, path |-> None]

\* What is on disk after the library's playlist download: the folder
\* downloads/<title> with the items that succeeded, the same folder as an
\* earlier run left it, or no such folder (nothing was downloaded, or the
\* library named the folder otherwise).
PlaylistFsStates ==
    {[root |-> r, nodes |-> EmptyTree, writable |-> w, archive |-> None]
        : r \in {"absent", "dir"}, w \in BOOLEAN}
    \cup {[root |-> "dir", nodes |-> [EmptyTree EXCEPT ![<<"a">>] = [kind |-> "file", data |-> 1]],
           writable |-> w, archive |-> None] : w \in BOOLEAN}

\* a user submits the form: the script runs from the top with these values
MainSubmit ==
    /\ pc = "idle"
    /\ \E u \in UiStates : ui' = u
    /\ pc' = "preview"
    /\ calls' = <<>>
    /\ result' = NoResult
    /\ offered' = None
    /\ UNCHANGED <<fs, facadeVars>>

\* lines 250-294: the preview section
MainPreview ==
    /\ pc = "preview"
    /\ IF ui.button = "preview" /\ ui.url # ""
       THEN calls' = Append(calls, IF ui.content_type = "Single Video"
                                   THEN "get_video_info" ELSE "get_playlist_info")
       ELSE calls' = calls
    /\ pc' = "download"
    /\ UNCHANGED <<ui, result, offered, fs, facadeVars>>

\* lines 315-317: no download button, or no URL
MainNoDownload ==
    /\ pc = "download"
    /\ ui.button # "download" \/ ui.url = ""
    /\ pc' = "done"
    /\ UNCHANGED <<ui, calls, result, offered, fs, facadeVars>>

\* lines 319-330: a single item
MainDownloadSingle ==
    /\ pc = "download"
    /\ ui.button = "download" /\ ui.url # ""
    /\ ui.content_type = "Single Video"
    /\ \E l \in ItemLibAnswers :
        LET r == IF ui.download_type = "Video"
                 THEN download_video(ui.url, StrArg(ui.quality), l)
                 ELSE download_audio(ui.url, ui.audio_format, l)
            v == Get(r.out.val)
        IN /\ calls' = Append(calls, IF ui.download_type = "Video"
                                     THEN "download_video" ELSE "download_audio")
           /\ IF r.out.raised
              THEN pc' = "crashed" /\ result' = result
              ELSE /\ pc' = "single_result"
                   /\ result' = [success |-> v.success, message |-> v.message,
                                 count |-> 0, path |-> v.path]
    /\ UNCHANGED <<ui, offered, fs, facadeVars>>

\* lines 332-348: the file is offered if the download succeeded and it exists
MainSingleResult ==
    /\ pc = "single_result"
    /\ \E exists \in BOOLEAN :
        offered' = IF result.success /\ ~IsNone(result.path) /\ exists
                   THEN result.path ELSE None
    /\ pc' = "done"
    /\ UNCHANGED <<ui, calls, result, fs, facadeVars>>

\* lines 351-366: a playlist
MainDownloadPlaylist ==
    /\ pc = "download"
    /\ ui.button = "download" /\ ui.url # ""
    /\ ui.content_type = "Playlist"
    /\ \E l \in PlaylistLibAnswers :
        LET r == IF ui.download_type = "Video"
                 THEN download_playlist(ui.url, "video", StrArg(ui.quality), "mp3", l)
                 ELSE download_playlist(ui.url, "audio", StrArg(BestStr), ui.audio_format, l)
            v == Get(r.out.val)
        IN /\ calls' = Append(calls, "download_playlist")
           /\ fs' \in PlaylistFsStates
           /\ IF r.out.raised
              THEN pc' = "crashed" /\ result' = result
              ELSE /\ pc' = "playlist_result"
                   /\ result' = [success |-> v.success, message |-> v.message,
                                 count |-> v.count, path |-> v.path]
    /\ UNCHANGED <<ui, offered, facadeVars>>

\* ZipWanted looking only at the folder on disk
MutZipWanted(res, f) == f.root # "absent"

\* lines 368 and 375: if success: ... if folder and os.path.exists(folder)
ZipWanted(res, f) == res.success /\ ~IsNone(res.path) /\ f.root # "absent"

\* lines 368-375 and 387-389: after the playlist download
MainPlaylistResult ==
    /\ pc = "playlist_result"
    /\ pc' = IF ZipWanted(result, fs) THEN "zip" ELSE "done"
    /\ UNCHANGED <<ui, calls, result, offered, fs, facadeVars>>

\* lines 376-386: create_zip(folder, result), then the archive is offered if it
\* exists; an exception from create_zip ends the run
MainCreateZip ==
    /\ pc = "zip"
    /\ LET r == create_zip(fs, <<"downloads", result.message>>, <<result.message>>)
       IN /\ calls' = Append(calls, "create_zip")
          /\ fs' = r.fs
          /\ IF r.out.raised
             THEN pc' = "crashed" /\ offered' = None
             ELSE /\ pc' = "done"
                  /\ offered' = IF ~IsNone(r.fs.archive) THEN Some("zip") ELSE None
    /\ UNCHANGED <<ui, result, facadeVars>>

\* the run is over; the form waits for the next submission
MainRerun ==
    /\ pc \in {"done", "crashed"}
    /\ pc' = "idle"
    /\ UNCHANGED <<ui, calls, result, offered, fs, facadeVars>>

----------------------------------------------------------------------------
(* Specifications *)

NoCall ==
    /\ lib = None
    /\ opts = None
    /\ ret = None
    /\ escaped = None

MainIdle ==
    /\ pc = "idle"
    /\ ui = NoUi
    /\ calls = <<>>
    /\ result = NoResult
    /\ offered = None

\* one call of a download operation, with any arguments and any answer of the
\* library
InitDownload ==
    /\ \/ op = "download_video" /\ args \in VideoCalls /\ answer \in ItemLibAnswers
       \/ op = "download_audio" /\ args \in AudioCalls /\ answer \in ItemLibAnswers
       \/ op = "download_playlist" /\ args \in PlaylistCalls /\ answer \in PlaylistLibAnswers
    /\ phase = "call"
    /\ NoCall
    /\ fs = NoFs
    /\ MainIdle

\* one call of a preview operation
InitInfo ==
    /\ \/ op = "get_video_info" /\ answer \in VideoLibAnswers
       \/ op = "get_playlist_info" /\ answer \in PlaylistInfoLibAnswers
    /\ args \in {[url |-> u] : u \in Urls}
    /\ phase = "call"
    /\ NoCall
    /\ fs = NoFs
    /\ MainIdle

\* one call of create_zip, on a filesystem in any of its states
InitZip ==
    /\ op = "create_zip"
    /\ args \in {[folder_path |-> SourceFolder, zip_name |-> z] : z \in ZipNames}
    /\ answer = None
    /\ phase = "call"
    /\ NoCall
    /\ fs \in FsStates
    /\ MainIdle

\* the script, before the first submission
InitMain ==
    /\ op = "none"
    /\ args = None
    /\ answer = None
    /\ phase = "return"
    /\ NoCall
    /\ fs = NoFs
    /\ MainIdle

NextDownload == DownloadVideo \/ DownloadAudio \/ DownloadPlaylist
NextInfo == GetVideoInfo \/ GetPlaylistInfo
NextZip == CreateZip
NextMain ==
    \/ MainSubmit
    \/ MainPreview
    \/ MainNoDownload
    \/ MainDownloadSingle
    \/ MainSingleResult
    \/ MainDownloadPlaylist
    \/ MainPlaylistResult
    \/ MainCreateZip
    \/ MainRerun

SpecDownload == InitDownload /\ [][NextDownload]_vars
SpecInfo == InitInfo /\ [][NextInfo]_vars
SpecZip == InitZip /\ [][NextZip]_vars
SpecMain == InitMain /\ [][NextMain]_vars

----------------------------------------------------------------------------
(* Claims about the download operations, under SpecDownload *)

DownloadOps == {"download_video", "download_audio", "download_playlist"}
Returned_(o) == phase = "return" /\ op = o

\* the call builds the 'format' option from the quality argument
UsesQuality ==
    op = "download_video" \/ (op = "download_playlist" /\ args.download_type = "video")

\* something raised while the operation ran: the option building, the library
\* call, or the extraction of the result from the library's answer
RaisedInside ==
    \/ UsesQuality /\ ~IsStr(args.quality)
    \/ answer.kind \in {"raise", "none"}
    \/ op \in {"download_video", "download_audio"} /\ ~answer.hasTitle

\* C1: whenever anything raises while download_video, download_audio or
\* download_playlist runs, the operation returns success = false with a
\* non-empty message, and no exception leaves the operation.
C1_FailureIsReturnedNotRaised ==
    (phase = "return" /\ op \in DownloadOps /\ RaisedInside) =>
        /\ IsNone(escaped)
        /\ ~IsNone(ret)
        /\ ~Get(ret).success
        /\ Get(ret).message # ""

\* C4: when the library reports a playlist in which some but not all items
\* failed, download_playlist returns success = true and a count equal to the
\* number of entries reported, failed ones included.
C4_PartialFailureCountsAllEntries ==
    (/\ Returned_("download_playlist")
     /\ ~IsNone(lib)
     /\ answer.kind = "info" /\ answer.hasEntries
     /\ CountOk(answer.entries) > 0
     /\ CountOk(answer.entries) < Len(answer.entries)) =>
        /\ IsNone(escaped)
        /\ Get(ret).success
        /\ Get(ret).count = Len(answer.entries)
        /\ Get(ret).count > CountOk(answer.entries)

\* three items, the second one broken: success and a count of 3
C4_Witness ==
    /\ Returned_("download_playlist")
    /\ args.download_type = "audio" /\ args.format = "mp3"
    /\ ~IsNone(lib)
    /\ answer.kind = "info" /\ answer.hasEntries
    /\ answer.entries = <<"ok", "failed", "ok">>
    /\ Get(ret).success
    /\ Get(ret).count = 3

\* the selector is one or more digits followed by "p"
IsDigitsP(q) ==
    /\ Len(q) >= 2
    /\ q[Len(q)] = "p"
    /\ \A i \in 1..(Len(q) - 1) : q[i] \in DigitSet

\* e is the height-bounded expression whose bound is the digits of q
HeightBounded(e, q) ==
    /\ Len(e) = Len(q) + 1
    /\ e[1] = "bestvideo[height<="
    /\ \A i \in 1..(Len(q) - 1) : e[i + 1] = q[i]
    /\ e[Len(e)] = "]+bestaudio/best"

\* C6: in download_video and in the video branch of download_playlist alike,
\* "best" gives the unrestricted expression and <digits>p gives the expression
\* bounded by exactly those digits.
C6_QualityTranslation ==
    (phase = "return" /\ UsesQuality /\ IsStr(args.quality)) =>
        /\ ~IsNone(opts)
        /\ (args.quality.s = BestStr =>
                Get(opts).format = <<"bestvideo+bestaudio/best">>)
        /\ (IsDigitsP(args.quality.s) => HeightBounded(Get(opts).format, args.quality.s))

\* download_playlist, video, "720p": the bound is 720
C6_Witness ==
    /\ Returned_("download_playlist")
    /\ args.download_type = "video"
    /\ args.quality = StrArg(<<"7", "2", "0", "p">>)
    /\ Get(opts).format = <<"bestvideo[height<=", "7", "2", "0", "]+bestaudio/best">>

----------------------------------------------------------------------------
(* Claims about the preview operations, under SpecInfo *)

Min(a, b) == IF a < b THEN a ELSE b

\* the first entries of the listing, as far as the preview looks, are dicts
PreviewedAreDicts(entries) ==
    \A i \in 1..Min(Len(entries), PreviewCap) : entries[i].isDict

\* an underlying failure: the library raised or answered None, a metadata field
\* is malformed, or the URL is not a collection
InfoFailure ==
    \/ answer.kind \in {"raise", "none"}
    \/ /\ op = "get_video_info"
       /\ \/ answer.duration.tag \in {"none", "float"}
          \/ answer.description.tag = "none"
    \/ /\ op = "get_playlist_info"
       /\ \/ ~answer.hasEntries
          \/ ~PreviewedAreDicts(answer.entries)

\* C5: get_video_info and get_playlist_info never raise; on any underlying
\* failure they return None, which carries no reason.
C5_InfoFailureIsNone ==
    (phase = "return" /\ op \in {"get_video_info", "get_playlist_info"}) =>
        /\ IsNone(escaped)
        /\ ~IsNone(ret)
        /\ (InfoFailure => Get(ret) = None)

\* a duration of None makes the arithmetic raise; the caller sees None
C5_Witness ==
    /\ Returned_("get_video_info")
    /\ answer.kind = "info"
    /\ answer.duration.tag = "none"
    /\ answer.description.tag = "str"
    /\ IsNone(escaped)
    /\ ret = Some(None)

\* C7: for a collection of N entries get_playlist_info returns the first
\* min(N, 10) entries in order, and reports N as the item count.
C7_PreviewCap ==
    (/\ Returned_("get_playlist_info")
     /\ answer.kind = "info" /\ answer.hasEntries
     /\ PreviewedAreDicts(answer.entries)) =>
        /\ ret # None /\ Get(ret) # None
        /\ LET info == Get(Get(ret))
               N == Len(answer.entries)
           IN /\ Len(info.videos) = Min(N, 10)
              /\ \A i \in 1..Len(info.videos) :
                    /\ info.videos[i].title = answer.entries[i].title
                    /\ info.videos[i].duration = answer.entries[i].duration
              /\ info.video_count = N

\* twelve entries: ten are listed, twelve are counted
C7_Witness ==
    /\ Returned_("get_playlist_info")
    /\ answer.kind = "info" /\ answer.hasEntries
    /\ Len(answer.entries) = 12
    /\ Get(ret) # None
    /\ Len(Get(Get(ret)).videos) = 10
    /\ Get(Get(ret)).video_count = 12

DigitValue(c) == CHOOSE k \in 0..9 : Digits[k + 1] = c

RECURSIVE DecValue(_)
\* the number a non-empty run of digits writes
DecValue(s) ==
    IF Len(s) = 1 THEN DigitValue(s[1])
    ELSE 10 * DecValue(SubSeq(s, 1, Len(s) - 1)) + DigitValue(s[Len(s)])

IsDigitRun(s) == Len(s) >= 1 /\ \A i \in 1..Len(s) : s[i] \in DigitSet

\* text is <minutes>:<two-digit seconds> for S seconds in all
IsMinutesSeconds(text, S) ==
    /\ Len(text) >= 4
    /\ text[Len(text) - 2] = ":"
    /\ LET m == SubSeq(text, 1, Len(text) - 3)
           sec == SubSeq(text, Len(text) - 1, Len(text))
       IN /\ IsDigitRun(m) /\ IsDigitRun(sec)
          /\ (Len(m) > 1 => m[1] # "0")
          /\ DecValue(sec) < 60
          /\ 60 * DecValue(m) + DecValue(sec) = S

\* the seconds the library reported (0 when it reported none)
TotalSeconds == IF answer.duration.tag = "absent" THEN 0 ELSE answer.duration.v

\* C8: a duration of S >= 0 whole seconds (0 when absent) is reported as
\* floor(S/60), a colon, and S mod 60 in two digits; minutes are not folded
\* into hours.
C8_DurationFormat ==
    (/\ Returned_("get_video_info")
     /\ answer.kind = "info"
     /\ answer.duration.tag \in {"int", "absent"}
     /\ TotalSeconds >= 0
     /\ answer.description.tag # "none") =>
        /\ ret # None /\ Get(ret) # None
        /\ LET text == Get(Get(ret)).duration
           IN /\ IsMinutesSeconds(text, TotalSeconds)
              /\ (TotalSeconds = 125 => text = <<"2", ":", "0", "5">>)
              /\ (TotalSeconds = 59 => text = <<"0", ":", "5", "9">>)
              /\ (TotalSeconds = 0 => text = <<"0", ":", "0", "0">>)
              /\ (TotalSeconds = 3725 => text = <<"6", "2", ":", "0", "5">>)

\* 3725 seconds are "62:05"
C8_Witness ==
    /\ Returned_("get_video_info")
    /\ answer.kind = "info"
    /\ answer.duration = PyDuration("int", 3725)
    /\ Get(ret) # None
    /\ Get(Get(ret)).duration = <<"6", "2", ":", "0", "5">>

\* C9: a description of at most 300 characters is reported unchanged, a longer
\* one as its first 300 characters followed by "...".
C9_DescriptionTruncation ==
    (/\ Returned_("get_video_info")
     /\ answer.kind = "info"
     /\ answer.description.tag = "str"
     /\ answer.duration.tag \in {"int", "absent"}) =>
        /\ ret # None /\ Get(ret) # None
        /\ LET D == answer.description.s
               R == Get(Get(ret)).description
           IN IF Len(D) <= 300 THEN R = D
              ELSE /\ Len(R) = 303
                   /\ \A i \in 1..300 : R[i] = D[i]
                   /\ \A i \in 301..303 : R[i] = "."

\* 301 characters: cut to 300 and the ellipsis
C9_Witness ==
    /\ Returned_("get_video_info")
    /\ answer.kind = "info"
    /\ answer.description.tag = "str"
    /\ Len(answer.description.s) = 301
    /\ Get(ret) # None
    /\ Len(Get(Get(ret)).description) = 303
    /\ Get(Get(ret)).description[303] = "."

----------------------------------------------------------------------------
(* Claims about create_zip, under SpecZip *)

\* the regular files under the source folder
RegularFiles(f) == {q \in Universe : f.nodes[q].kind = "file"}

\* C2: the archive's entries are exactly the regular files under the source
\* folder (directories, symbolic links and special files give none), each
\* stored under its path relative to the folder's parent, with its content.
C2_EntriesAreTheRegularFiles ==
    (Returned_("create_zip") /\ fs.root = "dir" /\ IsNone(escaped)) =>
        /\ ~IsNone(fs.archive)
        /\ Get(fs.archive).entries =
              {[name |-> <<"PL">> \o q, data |-> fs.nodes[q].data] : q \in RegularFiles(fs)}
        /\ Cardinality(Get(fs.archive).entries) = Cardinality(RegularFiles(fs))

\* the archive can be created where create_zip puts it
DestinationWritable == fs.writable /\ Len(args.zip_name) = 1

\* C3: create_zip fails with a filesystem error, and returns no archive path,
\* when the source folder does not exist or cannot be read, and when the
\* destination cannot be written.
C3_MissingSourceOrDestinationFails ==
    (Returned_("create_zip") /\ (fs.root \in {"absent", "unreadable"} \/ ~DestinationWritable)) =>
        /\ ~IsNone(escaped)
        /\ IsNone(ret)

----------------------------------------------------------------------------
(* Claims about main(), under SpecMain *)

Count(seq, x) == Cardinality({i \in 1..Len(seq) : seq[i] = x})
FacadeDownloads == {"download_video", "download_audio", "download_playlist"}

\* C10: in one submission create_zip is called at most once, only for a
\* playlist and only right after download_playlist returned success with a
\* folder that exists; never for a single item, a failed download or an empty
\* URL, for which no facade operation is called at all; and a file is offered
\* only after a successful download.
C10_ZipOnlyAfterSuccessfulPlaylist ==
    /\ Count(calls, "create_zip") <= 1
    /\ \A i \in 1..Len(calls) :
          calls[i] = "create_zip" =>
              /\ ui.content_type = "Playlist"
              /\ ui.button = "download"
              /\ i > 1 /\ calls[i - 1] = "download_playlist"
              /\ result.success
              /\ fs.root # "absent"
    /\ (ui.url = "" => calls = <<>>)
    /\ (pc = "zip" => result.success /\ fs.root # "absent" /\ ui.content_type = "Playlist")
    /\ (offered # None =>
          /\ result.success
          /\ \E i \in 1..Len(calls) : calls[i] \in FacadeDownloads)

\* a playlist was downloaded, packed once, and the archive is offered
C10_Witness ==
    /\ pc = "done"
    /\ ui.content_type = "Playlist"
    /\ calls = <<"download_playlist", "create_zip">>
    /\ result.success
    /\ offered = Some("zip")

====
